---------------------------- MODULE Spec2Model ----------------------------
(***************************************************************************)
(* A model of ForecastOperatorBaseModel                                    *)
(* (ads/opctl/operator/lowcode/forecast/model/base_model.py): one run of    *)
(* generate_report, stage by stage, with the per-series test-metrics loop   *)
(* (_test_evaluate_metrics), the report assembly and the artifact writes    *)
(* of _save_report.                                                        *)
(*                                                                         *)
(* Python values are modelled as follows.  None is the record NoneVal and   *)
(* a present value x is Some(x).  A numpy array is a sequence of integers   *)
(* in which NaN stands for a missing value.  A DataFrame of per-series      *)
(* metrics is the sequence of its columns; a column records the series it   *)
(* is labelled with and the arrays it was computed from.                    *)
(*                                                                         *)
(* What the run does not decide is chosen by the actions: whether model.pkl *)
(* can be read, what the subclass's _build_model produces, the contents of  *)
(* the test data, what the explainer does per series, what                 *)
(* backtest_stats.csv holds and which write of _save_report raises.        *)
(*                                                                         *)
(* Spec is the run over every configuration at a small horizon.            *)
(* SpecHorizonLimit is the run with test data at a horizon of              *)
(* SUMMARY_METRICS_HORIZON_LIMIT and one above it, and SpecBacktest the     *)
(* run of the auto-select model over every backtest table.                 *)
(***************************************************************************)
EXTENDS Integers, Sequences, FiniteSets, TLC

\* ------------------------------------------------------------------ bounds
NumSeries == 2
Horizon == 2
HistLen == 1

Series == 1..NumSeries

\* ------------------------------------------------------- values and arrays
NaN == 0

NoneVal == [isNone |-> TRUE, val |-> <<>>]
Some(x) == [isNone |-> FALSE, val |-> x]

SUMMARY_METRICS_HORIZON_LIMIT == 10

\* values[-h:]
LastH(v, h) == IF Len(v) <= h THEN v ELSE SubSeq(v, Len(v) - h + 1, Len(v))

\* numpy broadcasting of two one-dimensional arrays
Broadcastable(a, b) == Len(a) = Len(b) \/ Len(a) = 1 \/ Len(b) = 1

BroadcastLen(a, b) == IF Len(a) = 1 THEN Len(b) ELSE Len(a)

At(a, i) == IF Len(a) = 1 THEN a[1] ELSE a[i]

\* ~np.isnan(y_true) & ~np.isnan(y_pred)
DropNaMask(y_true, y_pred) ==
  [i \in 1..BroadcastLen(y_true, y_pred) |->
      At(y_true, i) # NaN /\ At(y_pred, i) # NaN]

MaskAll(m) == \A i \in 1..Len(m) : m[i]

MaskAny(m) == \E i \in 1..Len(m) : m[i]

\* a[mask]
RECURSIVE BoolIndex(_, _)
BoolIndex(a, m) ==
  IF Len(m) = 0 THEN <<>>
  ELSE LET n == Len(m)
           init == BoolIndex(SubSeq(a, 1, n - 1), SubSeq(m, 1, n - 1))
       IN IF m[n] THEN Append(init, a[n]) ELSE init

\* the keys of a per-series mapping in insertion order (ascending series id)
RECURSIVE SortedSeq(_)
SortedSeq(S) ==
  IF S = {} THEN <<>>
  ELSE LET m == CHOOSE x \in S : \A y \in S : x <= y
       IN <<m>> \o SortedSeq(S \ {m})

\* ---------------------------------------------------------- input data sets
TestPatterns == {"full", "partial", "allnan"}
PredPatterns == {"full", "lastnan"}

\* A series has HistLen points ahead of the h points of the horizon
VecLen(h) == HistLen + h

NanPositions(pat, h) ==
  CASE pat = "full" -> {}
    [] pat = "partial" -> {VecLen(h) - h + 1}
    [] pat = "allnan" -> (VecLen(h) - h + 1)..VecLen(h)
    [] pat = "lastnan" -> {VecLen(h)}

\* the target column of series s in the test data
TrueVec(s, pat, h) ==
  [j \in 1..VecLen(h) |->
     IF j \in NanPositions(pat, h) THEN NaN ELSE 100 * s + j]

\* the forecast_value column of series s
PredVec(s, pat, h) ==
  [j \in 1..VecLen(h) |->
     IF j \in NanPositions(pat, h) THEN NaN ELSE 100 * s + 50 + j]

\* The forecasts a build may produce: any set of series; a missing forecast
\* value is enumerated for the first series only.
ForecastOutputs ==
  UNION {{f \in [D -> PredPatterns] : \A s \in D : s = 1 \/ f[s] = "full"} :
           D \in SUBSET Series}

\* The test data sets: any set of series; missing values are enumerated for
\* at most one series of a data set.
TestFiles(D) ==
  UNION {{f \in [E -> TestPatterns] :
            \A s, t \in E : (f[s] # "full" /\ f[t] # "full") => s = t} :
           E \in SUBSET D}

\* The configurations: every combination of the flags the run reads.
\* auto_select is read only when the report is generated, and test_data only
\* when the report or the metrics are generated.
AllConfigs ==
  [previous_output_dir : BOOLEAN,
   generate_report : BOOLEAN,
   generate_metrics : BOOLEAN,
   test_data : BOOLEAN,
   generate_explanations : BOOLEAN,
   generate_model_parameters : BOOLEAN,
   generate_model_pickle : BOOLEAN,
   auto_select : BOOLEAN,
   horizon : {Horizon}]

Configs ==
  {c \in AllConfigs :
     /\ c.auto_select => c.generate_report
     /\ c.test_data => (c.generate_report \/ c.generate_metrics)}

\* ------------------------------------------------- _test_evaluate_metrics
EmptyFrame == [rows |-> <<>>, columns |-> <<>>]

\* utils._build_metrics_df: one column labelled series_id computed from the
\* pairs (y_true[i], y_pred[i]); no column for an empty input
BuildMetricsDf(y_true, y_pred, series_id) ==
  IF Len(y_true) = 0 \/ Len(y_pred) = 0 THEN <<>>
  ELSE <<[series_id |-> series_id, y_true |-> y_true, y_pred |-> y_pred]>>

\* The loop state: y_true is a local of the function, unbound until the
\* first successful look-up and kept from one iteration to the next.
LoopInit ==
  [bound |-> FALSE, y_true |-> <<>>, total_metrics |-> <<>>,
   warned |-> <<>>, raised |-> "none"]

\* One iteration of the loop over forecast_output.list_series_ids()
SeriesStep(s_id, forecast_output, data, h, st) ==
  LET found == s_id \in DOMAIN data
      \* try: y_true = ...[-horizon:]  except KeyError: logger.warn(...)
      bound1 == st.bound \/ found
      y_true1 == IF found THEN LastH(TrueVec(s_id, data[s_id], h), h) ELSE st.y_true
      warned1 == IF found THEN st.warned ELSE Append(st.warned, s_id)
      y_pred1 == LastH(PredVec(s_id, forecast_output[s_id], h), h)
  IN IF ~bound1
       THEN [st EXCEPT !.warned = warned1, !.raised = "UnboundLocalError"]
     ELSE IF ~Broadcastable(y_true1, y_pred1)
       THEN [st EXCEPT !.bound = bound1, !.y_true = y_true1,
                       !.warned = warned1, !.raised = "ValueError"]
     ELSE
       LET drop_na_mask == DropNaMask(y_true1, y_pred1)
       IN IF ~MaskAll(drop_na_mask) /\ MaskAny(drop_na_mask)
            THEN \* continue
                 [st EXCEPT !.bound = bound1, !.y_true = y_true1,
                            !.warned = warned1]
          ELSE
            LET filter == ~MaskAll(drop_na_mask)
                y_true2 == IF filter THEN BoolIndex(y_true1, drop_na_mask)
                           ELSE y_true1
                y_pred2 == IF filter THEN BoolIndex(y_pred1, drop_na_mask)
                           ELSE y_pred1
            IN [st EXCEPT !.bound = bound1, !.y_true = y_true2,
                          !.warned = warned1,
                          !.total_metrics =
                             st.total_metrics
                               \o BuildMetricsDf(y_true2, y_pred2, s_id)]

RECURSIVE MetricsLoop(_, _, _, _, _, _)
MetricsLoop(ids, i, forecast_output, data, h, st) ==
  IF i > Len(ids) \/ st.raised # "none" THEN st
  ELSE MetricsLoop(ids, i + 1, forecast_output, data, h,
                   SeriesStep(ids[i], forecast_output, data, h, st))

BaseSummaryColumns ==
  <<"MEAN_SMAPE", "MEDIAN_SMAPE", "MEAN_MAPE", "MEDIAN_MAPE", "MEAN_RMSE",
    "MEDIAN_RMSE", "MEAN_R2", "MEDIAN_R2", "MEAN_EXPLAINED_VARIANCE",
    "MEDIAN_EXPLAINED_VARIANCE", "ELAPSED_TIME">>

new_column_order ==
  <<"MEAN_SMAPE", "MEDIAN_SMAPE", "MEAN_MAPE", "MEDIAN_MAPE", "MEAN_WMAPE",
    "MEDIAN_WMAPE", "MEAN_RMSE", "MEDIAN_RMSE", "MEAN_R2", "MEDIAN_R2",
    "MEAN_EXPLAINED_VARIANCE", "MEDIAN_EXPLAINED_VARIANCE", "ELAPSED_TIME">>

\* utils._build_metrics_per_horizon: one row per horizon step
BuildMetricsPerHorizon(h) ==
  [i \in 1..h |-> [row |-> "horizon", step |-> i]]

\* SummaryOf without the early return for an empty metrics table
SummaryOfNoEarlyReturn(total_metrics, h) ==
  LET base == [rows |-> <<[row |-> "All Targets", step |-> 0]>>,
               columns |-> BaseSummaryColumns]
  IN IF h <= SUMMARY_METRICS_HORIZON_LIMIT
       THEN LET metrics_per_horizon == BuildMetricsPerHorizon(h)
            IN IF Len(metrics_per_horizon) > 0
                 THEN [rows |-> base.rows \o metrics_per_horizon,
                       columns |-> new_column_order]
                 ELSE base
     ELSE base

\* SummaryOf with the breakdown computed only below the limit
SummaryOfBelowLimit(total_metrics, h) ==
  IF Len(total_metrics) = 0 THEN EmptyFrame
  ELSE LET base == [rows |-> <<[row |-> "All Targets", step |-> 0]>>,
                    columns |-> BaseSummaryColumns]
       IN IF h < SUMMARY_METRICS_HORIZON_LIMIT
            THEN LET metrics_per_horizon == BuildMetricsPerHorizon(h)
                 IN IF Len(metrics_per_horizon) > 0
                      THEN [rows |-> base.rows \o metrics_per_horizon,
                            columns |-> new_column_order]
                      ELSE base
          ELSE base

\* lines 348-415: the summary of a metrics table
SummaryOf(total_metrics, h) ==
  IF Len(total_metrics) = 0 THEN EmptyFrame
  ELSE LET base == [rows |-> <<[row |-> "All Targets", step |-> 0]>>,
                    columns |-> BaseSummaryColumns]
       IN IF h <= SUMMARY_METRICS_HORIZON_LIMIT
            THEN LET metrics_per_horizon == BuildMetricsPerHorizon(h)
                 IN IF Len(metrics_per_horizon) > 0
                      THEN [rows |-> base.rows \o metrics_per_horizon,
                            columns |-> new_column_order]
                      ELSE base
          ELSE base

\* The whole of _test_evaluate_metrics: the loop, then the summary.
\* loads is FALSE when TestData(self.spec) raises.
TestEvaluateMetrics(forecast_output, data, h, loads) ==
  IF ~loads
    THEN [LoopInit EXCEPT !.raised = "TestDataError"]
            @@ [summary_metrics |-> EmptyFrame]
  ELSE LET st == MetricsLoop(SortedSeq(DOMAIN forecast_output), 1,
                             forecast_output, data, h, LoopInit)
       IN st @@ [summary_metrics |->
                   IF st.raised # "none" THEN EmptyFrame
                   ELSE SummaryOf(st.total_metrics, h)]

\* ------------------------------------------------------- generate_report
Stages ==
  <<"Init", "LoadPreviousModel", "BuildModels", "ComputeTrainMetrics",
    "ComputeTestMetrics", "AssembleReport", "PersistArtifacts", "Done">>

\* if self.spec.generate_report: ... ; then self._save_report(...)
AfterMetrics(c) ==
  IF c.generate_report THEN "AssembleReport" ELSE "PersistArtifacts"

\* NextStage with the test metrics computed after the report is assembled
NextStageTestMetricsLate(stage, c) ==
  CASE stage = "Init" ->
         IF c.previous_output_dir THEN "LoadPreviousModel" ELSE "BuildModels"
    [] stage = "LoadPreviousModel" -> "BuildModels"
    [] stage = "BuildModels" ->
         IF c.generate_report \/ c.generate_metrics
           THEN "ComputeTrainMetrics" ELSE AfterMetrics(c)
    [] stage = "ComputeTrainMetrics" -> AfterMetrics(c)
    [] stage = "AssembleReport" ->
         IF c.test_data THEN "ComputeTestMetrics" ELSE "PersistArtifacts"
    [] stage = "ComputeTestMetrics" -> "PersistArtifacts"
    [] stage = "PersistArtifacts" -> "Done"
    [] OTHER -> "None"

\* NextStage with _save_report called after a failure of an earlier stage
NextStageSavesAfterFailure(stage, c) ==
  CASE stage = "Init" ->
         IF c.previous_output_dir THEN "LoadPreviousModel" ELSE "BuildModels"
    [] stage = "LoadPreviousModel" -> "BuildModels"
    [] stage = "BuildModels" ->
         IF c.generate_report \/ c.generate_metrics
           THEN "ComputeTrainMetrics" ELSE AfterMetrics(c)
    [] stage = "ComputeTrainMetrics" ->
         IF c.test_data THEN "ComputeTestMetrics" ELSE AfterMetrics(c)
    [] stage = "ComputeTestMetrics" -> AfterMetrics(c)
    [] stage = "AssembleReport" -> "PersistArtifacts"
    [] stage = "PersistArtifacts" -> "Done"
    [] stage = "Aborted" -> "PersistArtifacts"
    [] OTHER -> "None"

\* The control flow of generate_report: the stage that follows `stage`.
NextStage(stage, c) ==
  CASE stage = "Init" ->
         IF c.previous_output_dir THEN "LoadPreviousModel" ELSE "BuildModels"
    [] stage = "LoadPreviousModel" -> "BuildModels"
    [] stage = "BuildModels" ->
         IF c.generate_report \/ c.generate_metrics
           THEN "ComputeTrainMetrics" ELSE AfterMetrics(c)
    [] stage = "ComputeTrainMetrics" ->
         IF c.test_data THEN "ComputeTestMetrics" ELSE AfterMetrics(c)
    [] stage = "ComputeTestMetrics" -> AfterMetrics(c)
    [] stage = "AssembleReport" -> "PersistArtifacts"
    [] stage = "PersistArtifacts" -> "Done"
    [] OTHER -> "None"

VARIABLES
  cfg,                \* self.spec
  pc,                 \* the last stage completed, "Done" or "Aborted"
  stages,             \* the stages entered so far, in order
  loaded_models,      \* self.loaded_models
  forecast_output,    \* self.forecast_output: series -> forecast values
  models,             \* self.models: the series with a fitted model
  errors_dict,        \* self.errors_dict
  eval_metrics,       \* self.eval_metrics
  test_eval_metrics,  \* self.test_eval_metrics
  summary_metrics,    \* local summary_metrics of generate_report
  test_data,          \* local test_data of generate_report
  test_file,          \* the test data set read by TestData(self.spec)
  shap_values,        \* what the explainer did for each fitted series
  report_sections,    \* local report_sections of generate_report
  global_explanation, \* self.global_explanation (its keys)
  local_explanation,  \* self.local_explanation (its keys)
  formatted_global_explanation,
  formatted_local_explanation,
  attempted,          \* the artifact writes started, in order
  written,            \* the artifact writes completed, in order
  log,                \* the logger's records, in order
  backtest_file,      \* backtest_stats.csv as generate_report finds it
  best_model,         \* local best_model of generate_report
  raised              \* the exception that left generate_report, or "none"

vars ==
  <<cfg, pc, stages, loaded_models, forecast_output, models, errors_dict,
    eval_metrics, test_eval_metrics, summary_metrics, test_data, test_file,
    shap_values, report_sections, global_explanation, local_explanation,
    formatted_global_explanation, formatted_local_explanation,
    attempted, written, log, backtest_file, best_model, raised>>

Rec(level, msg, s_id) == [level |-> level, msg |-> msg, s_id |-> s_id]

\* __init__, and the locals of generate_report before their first assignment
InitState ==
  /\ pc = "Init"
  /\ stages = <<"Init">>
  /\ loaded_models = NoneVal
  /\ forecast_output = <<>>
  /\ models = {}
  /\ errors_dict = <<>>
  /\ eval_metrics = NoneVal
  /\ test_eval_metrics = NoneVal
  /\ summary_metrics = NoneVal
  /\ test_data = NoneVal
  /\ test_file = <<>>
  /\ shap_values = <<>>
  /\ report_sections = <<>>
  /\ global_explanation = {}
  /\ local_explanation = {}
  /\ formatted_global_explanation = NoneVal
  /\ formatted_local_explanation = NoneVal
  /\ attempted = <<>>
  /\ written = <<>>
  /\ log = <<>>
  /\ backtest_file = NoneVal
  /\ best_model = NoneVal
  /\ raised = "none"

Init ==
  /\ cfg \in Configs
  /\ InitState

Enter(stage) ==
  /\ NextStage(pc, cfg) = stage
  /\ stages' = Append(stages, stage)

\* LoadModel with a failed load leaving a value in loaded_models
LoadModelFailureAssigns(previous, readable) ==
  IF readable THEN Some("model.pkl") ELSE Some("unreadable")

\* _load_model: try: self.loaded_models = load_pkl(...) except: logger.info
LoadModel(previous, readable) ==
  IF readable THEN Some("model.pkl") ELSE previous

LoadPreviousModel ==
  /\ Enter("LoadPreviousModel")
  /\ \E readable \in BOOLEAN :
       /\ loaded_models' = LoadModel(loaded_models, readable)
       /\ log' = IF readable THEN log
                 ELSE Append(log, Rec("info", "model.pkl is not present", 0))
  /\ pc' = "LoadPreviousModel"
  /\ UNCHANGED <<cfg, forecast_output, models, errors_dict, eval_metrics,
                 test_eval_metrics, summary_metrics, test_data, test_file,
                 shap_values, report_sections, global_explanation,
                 local_explanation, formatted_global_explanation,
                 formatted_local_explanation, attempted, written,
                 backtest_file, best_model, raised>>

\* result_df = self._build_model(): the subclass fits one model per series,
\* fills forecast_output and models, and records the series it could not fit
\* in errors_dict; an exception it raises is not caught.
BuildModels ==
  /\ Enter("BuildModels")
  /\ \/ /\ \E fo \in ForecastOutputs :
             /\ forecast_output' = fo
             /\ models' = DOMAIN fo
             /\ errors_dict' = [s \in Series \ DOMAIN fo |-> "model_fitting"]
        /\ pc' = "BuildModels"
        /\ log' = Append(log, Rec("info", "Building the models completed", 0))
        /\ UNCHANGED raised
     \/ /\ pc' = "Aborted"
        /\ raised' = "BuildModelsError"
        /\ UNCHANGED <<forecast_output, models, errors_dict, log>>
  /\ UNCHANGED <<cfg, loaded_models, eval_metrics, test_eval_metrics,
                 summary_metrics, test_data, test_file, shap_values,
                 report_sections,
                 global_explanation, local_explanation,
                 formatted_global_explanation, formatted_local_explanation,
                 attempted, written, backtest_file, best_model>>

\* generate_train_metrics: evaluate_train_metrics(self.forecast_output), a
\* table with one column per series of the forecast output
GenerateTrainMetrics(fo) == Some(SortedSeq(DOMAIN fo))

\* self.eval_metrics = self.generate_train_metrics(); an exception it raises
\* is not caught
ComputeTrainMetrics ==
  /\ Enter("ComputeTrainMetrics")
  /\ \/ /\ eval_metrics' = GenerateTrainMetrics(forecast_output)
        /\ pc' = "ComputeTrainMetrics"
        /\ UNCHANGED raised
     \/ /\ pc' = "Aborted"
        /\ raised' = "TrainMetricsError"
        /\ UNCHANGED eval_metrics
  /\ UNCHANGED <<cfg, loaded_models, forecast_output, models, errors_dict,
                 test_eval_metrics, summary_metrics, test_data, test_file,
                 shap_values, report_sections, global_explanation,
                 local_explanation, formatted_global_explanation,
                 formatted_local_explanation, attempted, written, log,
                 backtest_file, best_model>>

RECURSIVE WarnRecords(_)
WarnRecords(ids) ==
  IF Len(ids) = 0 THEN <<>>
  ELSE <<Rec("warn", "Unable to find series in the test data", Head(ids))>>
         \o WarnRecords(Tail(ids))

\* TestMetricsResults with the metrics table assigned although the call raised
TestMetricsResultsPartial(prev, res, data) ==
  [test_eval_metrics |-> Some(res.total_metrics),
   summary_metrics |-> IF res.raised # "none" THEN prev.summary_metrics
                       ELSE Some(res.summary_metrics),
   test_data |-> IF res.raised # "none" THEN prev.test_data ELSE Some(data)]

\* The try/except around _test_evaluate_metrics in generate_report: the three
\* results are assigned together, and only when the call returns.
TestMetricsResults(prev, res, data) ==
  IF res.raised # "none" THEN prev
  ELSE [test_eval_metrics |-> Some(res.total_metrics),
        summary_metrics |-> Some(res.summary_metrics),
        test_data |-> Some(data)]

ComputeTestMetrics ==
  /\ Enter("ComputeTestMetrics")
  /\ \E loads \in BOOLEAN :
       \E data \in IF loads THEN TestFiles(DOMAIN forecast_output) ELSE {<<>>} :
         LET res == TestEvaluateMetrics(forecast_output, data, cfg.horizon, loads)
             prev == [test_eval_metrics |-> test_eval_metrics,
                      summary_metrics |-> summary_metrics,
                      test_data |-> test_data]
             out == TestMetricsResults(prev, res, data)
         IN /\ test_file' = data
            /\ test_eval_metrics' = out.test_eval_metrics
            /\ summary_metrics' = out.summary_metrics
            /\ test_data' = out.test_data
            /\ log' = log \o WarnRecords(res.warned)
                          \o (IF res.raised # "none"
                                THEN <<Rec("debug", res.raised, 0),
                                       Rec("warn", "Unable to generate Test Metrics.", 0)>>
                                ELSE <<>>)
  /\ pc' = "ComputeTestMetrics"
  /\ UNCHANGED <<cfg, loaded_models, forecast_output, models, errors_dict,
                 eval_metrics, shap_values, report_sections,
                 global_explanation, local_explanation,
                 formatted_global_explanation, formatted_local_explanation,
                 attempted, written, backtest_file, best_model, raised>>

\* ----------------------------------------------------------- explain_model
ExplainResults == {"ok", "empty", "raise"}

\* What the explainer does per fitted series: at most one series is not "ok".
ShapOutcomes(fitted) ==
  {f \in [fitted -> ExplainResults] :
     \A s, t \in fitted : (f[s] # "ok" /\ f[t] # "ok") => s = t}

ExplainInit ==
  [global_explanation |-> {}, local_explanation |-> {}, warned |-> <<>>,
   raised |-> FALSE]

\* ExplainStep with a series that has no fitted model raising
ExplainStepUnfittedRaises(s_id, fitted, shap, st) ==
  IF s_id \in fitted
    THEN IF shap[s_id] = "raise" THEN [st EXCEPT !.raised = TRUE]
         ELSE IF shap[s_id] = "empty"
           THEN [st EXCEPT !.local_explanation = @ \cup {s_id},
                           !.warned = Append(@, Rec("warn", "No explanations generated", s_id))]
         ELSE [st EXCEPT !.local_explanation = @ \cup {s_id},
                         !.global_explanation = @ \cup {s_id}]
  ELSE [st EXCEPT !.raised = TRUE]

\* One iteration of the loop of explain_model over the series of the data
\* set.  shap[s_id] is what the explainer does for the series: it returns
\* values ("ok"), returns no values ("empty") or raises ("raise").
ExplainStep(s_id, fitted, shap, st) ==
  IF s_id \in fitted
    THEN IF shap[s_id] = "raise" THEN [st EXCEPT !.raised = TRUE]
         ELSE IF shap[s_id] = "empty"
           THEN \* local_explainer has run before the values are looked at
                [st EXCEPT !.local_explanation = @ \cup {s_id},
                           !.warned = Append(@, Rec("warn", "No explanations generated", s_id))]
         ELSE [st EXCEPT !.local_explanation = @ \cup {s_id},
                         !.global_explanation = @ \cup {s_id}]
  ELSE [st EXCEPT !.warned = Append(@, Rec("warn", "Skipping explanations", s_id))]

RECURSIVE ExplainLoop(_, _, _, _, _)
ExplainLoop(ids, i, fitted, shap, st) ==
  IF i > Len(ids) \/ st.raised THEN st
  ELSE ExplainLoop(ids, i + 1, fitted, shap,
                   ExplainStep(ids[i], fitted, shap, st))

ExplainModel(fitted, shap) ==
  ExplainLoop(SortedSeq(Series), 1, fitted, shap, ExplainInit)

\* The subclass's _generate_report: with generate_explanations it calls
\* explain_model and formats the explanations; a failure of explain_model is
\* caught there and leaves the formatted explanations None.
FormatExplanations(c, ex) ==
  IF c.generate_explanations /\ ~ex.raised
    THEN [global |-> Some(ex.global_explanation),
          local |-> Some(ex.local_explanation)]
    ELSE [global |-> NoneVal, local |-> NoneVal]

\* ------------------------------------------------------- report assembly
OtherSections == <<"Model Sections">>

\* ReportSections with the tables tested for None only, not for being empty
ReportSectionsNoneOnly(c, test_metrics, summary, train_metrics, fo, other_sections) ==
  LET summary_block == <<"Forecast Report">>
      sec7 == IF ~test_metrics.isNone
                THEN <<"Test Data Evaluation Metrics">> ELSE <<>>
      sec8 == IF ~summary.isNone
                THEN <<"Test Data Summary Metrics">> ELSE <<>>
      test_metrics_sections == sec7 \o sec8
      train_metrics_sections ==
        IF ~train_metrics.isNone
          THEN <<"Training Data Metrics">> ELSE <<>>
      backtest_sections ==
        IF c.auto_select THEN <<"Back Testing Metrics">> ELSE <<>>
      forecast_plots ==
        IF Cardinality(DOMAIN fo) > 0
          THEN <<"Forecasted Data Overlaying Historical">> ELSE <<>>
  IN summary_block \o backtest_sections \o forecast_plots \o other_sections
       \o test_metrics_sections \o train_metrics_sections
       \o <<"Reference: YAML File">>

\* ReportSections with the training metrics ahead of the test metrics
ReportSectionsTrainFirst(c, test_metrics, summary, train_metrics, fo, other_sections) ==
  LET summary_block == <<"Forecast Report">>
      sec7 == IF ~test_metrics.isNone /\ Len(test_metrics.val) > 0
                THEN <<"Test Data Evaluation Metrics">> ELSE <<>>
      sec8 == IF ~summary.isNone /\ Len(summary.val.rows) > 0
                THEN <<"Test Data Summary Metrics">> ELSE <<>>
      test_metrics_sections == sec7 \o sec8
      train_metrics_sections ==
        IF ~train_metrics.isNone /\ Len(train_metrics.val) > 0
          THEN <<"Training Data Metrics">> ELSE <<>>
      backtest_sections ==
        IF c.auto_select THEN <<"Back Testing Metrics">> ELSE <<>>
      forecast_plots ==
        IF Cardinality(DOMAIN fo) > 0
          THEN <<"Forecasted Data Overlaying Historical">> ELSE <<>>
  IN summary_block \o backtest_sections \o forecast_plots \o other_sections
       \o train_metrics_sections \o test_metrics_sections
       \o <<"Reference: YAML File">>

\* The sections of the report, in order (lines 225-299).
ReportSections(c, test_metrics, summary, train_metrics, fo, other_sections) ==
  LET summary_block == <<"Forecast Report">>
      sec7 == IF ~test_metrics.isNone /\ Len(test_metrics.val) > 0
                THEN <<"Test Data Evaluation Metrics">> ELSE <<>>
      sec8 == IF ~summary.isNone /\ Len(summary.val.rows) > 0
                THEN <<"Test Data Summary Metrics">> ELSE <<>>
      test_metrics_sections == sec7 \o sec8
      train_metrics_sections ==
        IF ~train_metrics.isNone /\ Len(train_metrics.val) > 0
          THEN <<"Training Data Metrics">> ELSE <<>>
      backtest_sections ==
        IF c.auto_select THEN <<"Back Testing Metrics">> ELSE <<>>
      forecast_plots ==
        IF Cardinality(DOMAIN fo) > 0
          THEN <<"Forecasted Data Overlaying Historical">> ELSE <<>>
  IN summary_block \o backtest_sections \o forecast_plots \o other_sections
       \o test_metrics_sections \o train_metrics_sections
       \o <<"Reference: YAML File">>

\* ----------------------------------------------------- backtest statistics
BacktestRows == 2

ModelNames == <<"modelA", "modelB">>

\* Scores are held in twentieths (0.05 is 1, 0.1 is 2, 0.3 is 6, 1.2 is 24),
\* and so is the backtest index k of the 'backtest' column (20 * k).
Scores == {1, 2, 6, 24}

BacktestColumn ==
  [name |-> "backtest", values |-> [i \in 1..BacktestRows |-> 20 * (i - 1)]]

\* backtest_stats.csv: the 'backtest' column, then one column per model
BacktestTable(scores) ==
  <<BacktestColumn>>
    \o [m \in DOMAIN ModelNames |-> [name |-> ModelNames[m], values |-> scores[m]]]

\* A model's column: its score in the first backtest and its score in the
\* later ones
ScoreColumns ==
  {[i \in 1..BacktestRows |-> IF i = 1 THEN a ELSE b] : a, b \in Scores}

BacktestTables ==
  {BacktestTable(f) : f \in [DOMAIN ModelNames -> ScoreColumns]}

\* modelA = [0.1, 0.3, ...], modelB = [0.05, 0.05, ...]
ExampleBacktest ==
  BacktestTable(<<[i \in 1..BacktestRows |-> IF i = 1 THEN 2 ELSE 6],
                  [i \in 1..BacktestRows |-> 1]>>)

\* The file a run may find: absent, or the example table
BacktestFiles == {NoneVal, Some(ExampleBacktest)}

\* The file a run may find: absent, or any table
AllBacktestFiles == {NoneVal} \cup {Some(t) : t \in BacktestTables}

RECURSIVE SumSeq(_)
SumSeq(v) == IF Len(v) = 0 THEN 0 ELSE Head(v) + SumSeq(Tail(v))

\* The mean of a column as the fraction sum / n
Mean(values) == [sum |-> SumSeq(values), n |-> Len(values)]

MeanLess(a, b) == a.sum * b.n < b.sum * a.n

\* backtest_stats.mean().to_dict(), in column order
AverageDict(backtest_stats) ==
  [i \in DOMAIN backtest_stats |->
     [name |-> backtest_stats[i].name, mean |-> Mean(backtest_stats[i].values)]]

\* del average_dict['backtest']
DelBacktest(average_dict) ==
  SelectSeq(average_dict, LAMBDA e : e.name # "backtest")

\* min(average_dict, key=average_dict.get): the first key of the least value
RECURSIVE MinKey(_, _, _)
MinKey(d, i, best) ==
  IF i > Len(d) THEN best
  ELSE MinKey(d, i + 1, IF MeanLess(d[i].mean, best.mean) THEN d[i] ELSE best)

\* BestModel with the 'backtest' column left among the candidates
BestModelKeepsIndex(backtest_stats) ==
  LET average_dict == AverageDict(backtest_stats)
  IN MinKey(average_dict, 2, average_dict[1]).name

\* lines 255-257: the model named as best in the backtest section
BestModel(backtest_stats) ==
  LET average_dict == DelBacktest(AverageDict(backtest_stats))
  IN MinKey(average_dict, 2, average_dict[1]).name

\* pd.read_csv of backtest_stats.csv raises when the file does not exist
AssemblyRaises(c, backtest_exists) == c.auto_select /\ ~backtest_exists

\* if self.spec.generate_report: the subclass's _generate_report, then the
\* sections.  files is the set of states backtest_stats.csv may be found in.
AssembleReportWith(files) ==
  /\ Enter("AssembleReport")
  /\ \E hook_ok \in BOOLEAN, file \in files, shap \in ShapOutcomes(models) :
       \* inputs that are not read are fixed, not enumerated
       /\ cfg.auto_select \/ file = Some(ExampleBacktest)
       /\ cfg.generate_explanations \/ \A s \in models : shap[s] = "ok"
       /\ hook_ok \/ (file = Some(ExampleBacktest)
                        /\ \A s \in models : shap[s] = "ok")
       /\ IF ~hook_ok
            THEN /\ pc' = "Aborted"
                 /\ raised' = "ReportHookError"
                 /\ UNCHANGED <<shap_values, report_sections,
                                global_explanation, local_explanation,
                                formatted_global_explanation,
                                formatted_local_explanation, log,
                                backtest_file, best_model>>
            ELSE LET ex == IF cfg.generate_explanations
                             THEN ExplainModel(models, shap) ELSE ExplainInit
                     fmt == FormatExplanations(cfg, ex)
                 IN /\ shap_values' = shap
                    /\ global_explanation' = ex.global_explanation
                    /\ local_explanation' = ex.local_explanation
                    /\ formatted_global_explanation' = fmt.global
                    /\ formatted_local_explanation' = fmt.local
                    /\ log' = log \o ex.warned
                                \o (IF ex.raised
                                      THEN <<Rec("warn", "Failed to generate Explanations", 0)>>
                                      ELSE <<>>)
                    /\ backtest_file' = file
                    /\ IF AssemblyRaises(cfg, ~file.isNone)
                         THEN /\ pc' = "Aborted"
                              /\ raised' = "FileNotFoundError"
                              /\ UNCHANGED <<report_sections, best_model>>
                         ELSE /\ pc' = "AssembleReport"
                              /\ best_model' =
                                   IF cfg.auto_select
                                     THEN Some(BestModel(file.val)) ELSE NoneVal
                              /\ report_sections' =
                                   ReportSections(cfg, test_eval_metrics,
                                                  summary_metrics, eval_metrics,
                                                  forecast_output, OtherSections)
                              /\ UNCHANGED raised
  /\ UNCHANGED <<cfg, loaded_models, forecast_output, models, errors_dict,
                 eval_metrics, test_eval_metrics, summary_metrics, test_data,
                 test_file, attempted, written>>

AssembleReport == AssembleReportWith(BacktestFiles)

\* ---------------------------------------------------------- _save_report
Write(what) == [kind |-> "write", what |-> what]
Warn(what) == [kind |-> "warn", what |-> what]
Info(what) == [kind |-> "info", what |-> what]

\* SaveReportSteps with the forecast CSV written before the report
SaveReportStepsForecastFirst(c, metrics_df, test_metrics_df, fge, fle, errors) ==
  <<Write("forecast_csv")>>
  \o (IF c.generate_report THEN <<Write("report")>> ELSE <<>>)
  \o (IF c.generate_metrics
        THEN (IF ~metrics_df.isNone THEN <<Write("metrics_csv")>>
              ELSE <<Warn("metrics_csv")>>)
             \o (IF c.test_data
                   THEN (IF ~test_metrics_df.isNone
                           THEN <<Write("test_metrics_csv")>>
                           ELSE <<Warn("test_metrics_csv")>>)
                   ELSE <<>>)
        ELSE <<>>)
  \o (IF c.generate_explanations
        THEN (IF ~fge.isNone THEN <<Write("global_explanation_csv")>>
              ELSE <<Warn("global_explanation_csv")>>)
             \o (IF ~fle.isNone THEN <<Write("local_explanation_csv")>>
                 ELSE <<Warn("local_explanation_csv")>>)
        ELSE <<>>)
  \o (IF c.generate_model_parameters THEN <<Write("model_params_json")>>
      ELSE <<>>)
  \o (IF c.generate_model_pickle THEN <<Write("model_pkl")>> ELSE <<>>)
  \o <<Info("The outputs have been successfully generated")>>
  \o (IF DOMAIN errors # {} THEN <<Write("errors_json")>>
      ELSE <<Info("All modeling completed successfully.")>>)

\* SaveReportSteps with the test-metrics table written without the test
\* for None
SaveReportStepsNoNoneTest(c, metrics_df, test_metrics_df, fge, fle, errors) ==
  (IF c.generate_report THEN <<Write("report")>> ELSE <<>>)
  \o <<Write("forecast_csv")>>
  \o (IF c.generate_metrics
        THEN (IF ~metrics_df.isNone THEN <<Write("metrics_csv")>>
              ELSE <<Warn("metrics_csv")>>)
             \o (IF c.test_data THEN <<Write("test_metrics_csv")>> ELSE <<>>)
        ELSE <<>>)
  \o (IF c.generate_explanations
        THEN (IF ~fge.isNone THEN <<Write("global_explanation_csv")>>
              ELSE <<Warn("global_explanation_csv")>>)
             \o (IF ~fle.isNone THEN <<Write("local_explanation_csv")>>
                 ELSE <<Warn("local_explanation_csv")>>)
        ELSE <<>>)
  \o (IF c.generate_model_parameters THEN <<Write("model_params_json")>>
      ELSE <<>>)
  \o (IF c.generate_model_pickle THEN <<Write("model_pkl")>> ELSE <<>>)
  \o <<Info("The outputs have been successfully generated")>>
  \o (IF DOMAIN errors # {} THEN <<Write("errors_json")>>
      ELSE <<Info("All modeling completed successfully.")>>)

\* The writes and log records of _save_report, in program order.
SaveReportSteps(c, metrics_df, test_metrics_df, fge, fle, errors) ==
  (IF c.generate_report THEN <<Write("report")>> ELSE <<>>)
  \o <<Write("forecast_csv")>>
  \o (IF c.generate_metrics
        THEN (IF ~metrics_df.isNone THEN <<Write("metrics_csv")>>
              ELSE <<Warn("metrics_csv")>>)
             \o (IF c.test_data
                   THEN (IF ~test_metrics_df.isNone
                           THEN <<Write("test_metrics_csv")>>
                           ELSE <<Warn("test_metrics_csv")>>)
                   ELSE <<>>)
        ELSE <<>>)
  \o (IF c.generate_explanations
        THEN (IF ~fge.isNone THEN <<Write("global_explanation_csv")>>
              ELSE <<Warn("global_explanation_csv")>>)
             \o (IF ~fle.isNone THEN <<Write("local_explanation_csv")>>
                 ELSE <<Warn("local_explanation_csv")>>)
        ELSE <<>>)
  \o (IF c.generate_model_parameters THEN <<Write("model_params_json")>>
      ELSE <<>>)
  \o (IF c.generate_model_pickle THEN <<Write("model_pkl")>> ELSE <<>>)
  \o <<Info("The outputs have been successfully generated")>>
  \o (IF DOMAIN errors # {} THEN <<Write("errors_json")>>
      ELSE <<Info("All modeling completed successfully.")>>)

RECURSIVE WritesOf(_)
WritesOf(steps) ==
  IF Len(steps) = 0 THEN <<>>
  ELSE (IF Head(steps).kind = "write" THEN <<Head(steps).what>> ELSE <<>>)
         \o WritesOf(Tail(steps))

RECURSIVE LogOf(_)
LogOf(steps) ==
  IF Len(steps) = 0 THEN <<>>
  ELSE (IF Head(steps).kind # "write"
          THEN <<Rec(Head(steps).kind, Head(steps).what, 0)>> ELSE <<>>)
         \o LogOf(Tail(steps))

\* No write is guarded: the first write that raises ends _save_report.
\* fail_at is the step whose write raises, 0 when none does.
RunSteps(steps, fail_at) ==
  IF fail_at = 0
    THEN [attempted |-> WritesOf(steps), written |-> WritesOf(steps),
          log |-> LogOf(steps), raised |-> FALSE]
    ELSE [attempted |-> WritesOf(SubSeq(steps, 1, fail_at)),
          written |-> WritesOf(SubSeq(steps, 1, fail_at - 1)),
          log |-> LogOf(SubSeq(steps, 1, fail_at)), raised |-> TRUE]

PersistArtifacts ==
  /\ Enter("PersistArtifacts")
  /\ LET steps == SaveReportSteps(cfg, eval_metrics, test_eval_metrics,
                                  formatted_global_explanation,
                                  formatted_local_explanation, errors_dict)
     IN \E fail_at \in {0} \cup {i \in 1..Len(steps) : steps[i].kind = "write"} :
          LET run == RunSteps(steps, fail_at)
          IN /\ attempted' = run.attempted
             /\ written' = run.written
             /\ log' = log \o run.log
             /\ pc' = IF run.raised THEN "Aborted" ELSE "Done"
             /\ raised' = IF run.raised THEN "WriteError" ELSE raised
  /\ UNCHANGED <<cfg, loaded_models, forecast_output, models, errors_dict,
                 eval_metrics, test_eval_metrics, summary_metrics, test_data,
                 test_file, shap_values, report_sections, global_explanation,
                 local_explanation, formatted_global_explanation,
                 formatted_local_explanation, backtest_file, best_model>>

Next ==
  \/ LoadPreviousModel
  \/ BuildModels
  \/ ComputeTrainMetrics
  \/ ComputeTestMetrics
  \/ AssembleReport
  \/ PersistArtifacts

Spec == Init /\ [][Next]_vars

\* ---------------------------------------- runs at the summary horizon limit
LimitHorizons ==
  {SUMMARY_METRICS_HORIZON_LIMIT, SUMMARY_METRICS_HORIZON_LIMIT + 1}

\* Runs with test data and a horizon at the limit or one above it; the flags
\* that _test_evaluate_metrics does not depend on are off.
HorizonLimitConfigs ==
  {[c EXCEPT !.horizon = h] :
     c \in {d \in Configs :
              /\ d.test_data
              /\ ~d.previous_output_dir
              /\ ~d.auto_select
              /\ ~d.generate_explanations
              /\ ~d.generate_model_parameters
              /\ ~d.generate_model_pickle},
     h \in LimitHorizons}

InitHorizonLimit ==
  /\ cfg \in HorizonLimitConfigs
  /\ InitState

NextHorizonLimit ==
  \/ BuildModels
  \/ ComputeTrainMetrics
  \/ ComputeTestMetrics
  \/ AssembleReport
  \/ PersistArtifacts

SpecHorizonLimit == InitHorizonLimit /\ [][NextHorizonLimit]_vars

\* ------------------------------------------- auto-select runs with a report
\* Runs of the auto-select model that assemble a report, over every backtest
\* table; the flags that the backtest section does not depend on are off.
BacktestConfigs ==
  {c \in Configs :
     /\ c.auto_select
     /\ c.generate_report
     /\ ~c.test_data
     /\ ~c.previous_output_dir
     /\ ~c.generate_explanations
     /\ ~c.generate_model_parameters
     /\ ~c.generate_model_pickle}

InitBacktest ==
  /\ cfg \in BacktestConfigs
  /\ InitState

AssembleBacktestReport == AssembleReportWith(AllBacktestFiles)

NextBacktest ==
  \/ BuildModels
  \/ ComputeTrainMetrics
  \/ AssembleBacktestReport
  \/ PersistArtifacts

SpecBacktest == InitBacktest /\ [][NextBacktest]_vars

\* ------------------------------------------------------------ properties
Entered(stage) == \E i \in DOMAIN stages : stages[i] = stage

In(x, seq) == \E i \in DOMAIN seq : seq[i] = x

StageRank(stage) == CHOOSE i \in DOMAIN Stages : Stages[i] = stage

Logged(level, msg, s_id) == In(Rec(level, msg, s_id), log)

\* _test_evaluate_metrics raised and generate_report caught it
TestRaised == Logged("warn", "Unable to generate Test Metrics.", 0)

\* TestData(self.spec) was read and the loop over the series has run
TestLoaded ==
  Entered("ComputeTestMetrics") /\ ~Logged("debug", "TestDataError", 0)

\* C1: the stages of a run are entered in the order Init, LoadPreviousModel,
\* BuildModels, ComputeTrainMetrics, ComputeTestMetrics, AssembleReport,
\* PersistArtifacts, each at most once and none after a later one, and a run
\* that reaches Done has entered BuildModels and PersistArtifacts.
C1_StageOrder ==
  /\ \A i \in 1..(Len(stages) - 1) :
       StageRank(stages[i]) < StageRank(stages[i + 1])
  /\ pc = "Done" => Entered("BuildModels") /\ Entered("PersistArtifacts")

C1_AllStagesRun ==
  /\ pc = "Done"
  /\ stages = SubSeq(Stages, 1, Len(Stages) - 1)

\* C2: when _test_evaluate_metrics raises, the failure does not end the run
\* (it is not the stage the run aborted in), the test metrics, the summary
\* metrics and the test data stay None, and the report has neither the
\* test-metrics nor the summary-metrics section.
C2_TestFailureCaught ==
  TestRaised =>
    /\ test_eval_metrics.isNone
    /\ summary_metrics.isNone
    /\ test_data.isNone
    /\ ~(pc = "Aborted" /\ stages[Len(stages)] = "ComputeTestMetrics")
    /\ ~In("Test Data Evaluation Metrics", report_sections)
    /\ ~In("Test Data Summary Metrics", report_sections)

C2_FailedRunCompletes ==
  /\ TestRaised
  /\ pc = "Done"
  /\ Entered("AssembleReport")
  /\ In("Forecast Report", report_sections)
  /\ In("forecast_csv", written)

\* The columns of the test-metrics table labelled with series s
ColumnsOf(table, s) == {i \in DOMAIN table : table[i].series_id = s}

\* The test-metrics table as the rest of the run sees it: no column when None
TestTable == IF test_eval_metrics.isNone THEN <<>> ELSE test_eval_metrics.val

\* The last H true and predicted values of series s, as read from the inputs
OwnTrue(s) == LastH(TrueVec(s, test_file[s], cfg.horizon), cfg.horizon)

OwnPred(s) == LastH(PredVec(s, forecast_output[s], cfg.horizon), cfg.horizon)

Restrict(f, D) == [s \in D |-> f[s]]

\* C3: every series that has forecast output and is absent from the test
\* data is skipped with a warning: the computation does not raise, the
\* series has no column in the metrics table, and every column of the table
\* is computed from the true values of its own series.
C3_MissingSeriesSkipped ==
  TestLoaded =>
    \A s \in DOMAIN forecast_output \ DOMAIN test_file :
      /\ Logged("warn", "Unable to find series in the test data", s)
      /\ ~TestRaised
      /\ ColumnsOf(TestTable, s) = {}
      /\ \A i \in DOMAIN TestTable :
           LET t == TestTable[i].series_id
           IN /\ t \in DOMAIN test_file
              /\ \A k \in DOMAIN TestTable[i].y_true :
                   In(TestTable[i].y_true[k], OwnTrue(t))

\* C4: for every series in both the forecast output and the test data, a
\* completed test-metrics computation has exactly one column for the series
\* if and only if some position of the last H points has a true and a
\* predicted value; the column is computed from exactly the valid pairs, and
\* a series without a valid pair has no column.
C4_ColumnIffValidPair ==
  (TestLoaded /\ ~TestRaised) =>
    \A s \in DOMAIN forecast_output \cap DOMAIN test_file :
      LET mask == DropNaMask(OwnTrue(s), OwnPred(s))
          cols == ColumnsOf(TestTable, s)
      IN /\ Cardinality(cols) = (IF MaskAny(mask) THEN 1 ELSE 0)
         /\ \A i \in cols :
              /\ TestTable[i].y_true = BoolIndex(OwnTrue(s), mask)
              /\ TestTable[i].y_pred = BoolIndex(OwnPred(s), mask)

\* The series that get a metrics column in a run over the series D only
ColumnSeriesWithout(s) ==
  LET D == DOMAIN forecast_output \ {s}
      res == TestEvaluateMetrics(Restrict(forecast_output, D), test_file,
                                 cfg.horizon, TRUE)
  IN IF res.raised # "none" THEN {}
     ELSE {res.total_metrics[i].series_id : i \in DOMAIN res.total_metrics}

\* The series that get an explanation entry in a run without series s
ExplainedWithout(s) ==
  ExplainModel(models \ {s}, Restrict(shap_values, models \ {s})).global_explanation

\* C5: a series whose metrics computation fails (it is missing from the test
\* data) or whose explanation fails (the explainer raises) takes no result
\* away from another series: every other series that gets a metrics column,
\* or an explanation entry, in the run without the failing series gets it in
\* this run too.
C5_FailureIsolated ==
  /\ TestLoaded =>
       \A s \in DOMAIN forecast_output \ DOMAIN test_file :
         \A t \in ColumnSeriesWithout(s) : ColumnsOf(TestTable, t) # {}
  /\ cfg.generate_explanations =>
       \A s \in DOMAIN shap_values :
         shap_values[s] = "raise" =>
           \A t \in ExplainedWithout(s) : t \in global_explanation

\* The artifact writes _save_report would make if none of them failed
PlannedWrites ==
  WritesOf(SaveReportSteps(cfg, eval_metrics, test_eval_metrics,
                           formatted_global_explanation,
                           formatted_local_explanation, errors_dict))

\* C6: once PersistArtifacts is entered, every artifact that is requested
\* and available is attempted, whichever write fails.
C6_WritesIndependent ==
  Entered("PersistArtifacts") => attempted = PlannedWrites

ArtifactOrder ==
  <<"report", "forecast_csv", "metrics_csv", "test_metrics_csv",
    "global_explanation_csv", "local_explanation_csv", "model_params_json",
    "model_pkl", "errors_json">>

ArtifactRank(a) == CHOOSE i \in DOMAIN ArtifactOrder : ArtifactOrder[i] = a

\* C7: the artifact writes are attempted in the order report, forecast CSV,
\* metrics CSV, test-metrics CSV, global and local explanation CSVs, model
\* parameters, model pickle, errors JSON; and the report, the explanation
\* CSVs, the model parameters and the pickle are written only when their
\* generate_* flag is set.
C7_WriteOrder ==
  /\ \A i \in 1..(Len(attempted) - 1) :
       ArtifactRank(attempted[i]) < ArtifactRank(attempted[i + 1])
  /\ In("report", attempted) => cfg.generate_report
  /\ In("global_explanation_csv", attempted) => cfg.generate_explanations
  /\ In("local_explanation_csv", attempted) => cfg.generate_explanations
  /\ In("model_params_json", attempted) => cfg.generate_model_parameters
  /\ In("model_pkl", attempted) => cfg.generate_model_pickle

C7_AllArtifactsWritten ==
  /\ pc = "Done"
  /\ written = ArtifactOrder

\* C8 as stated: in a completed run with generate_metrics, a metrics table
\* that is None or empty is not written and a warning is logged, and the
\* forecast CSV is written; the same for the test metrics with test data.
C8_EmptyMetricsNotWritten ==
  (pc = "Done" /\ cfg.generate_metrics) =>
    /\ (eval_metrics.isNone \/ Len(eval_metrics.val) = 0) =>
         /\ ~In("metrics_csv", written)
         /\ Logged("warn", "metrics_csv", 0)
         /\ In("forecast_csv", written)
    /\ (cfg.test_data
          /\ (test_eval_metrics.isNone \/ Len(test_eval_metrics.val) = 0)) =>
         /\ ~In("test_metrics_csv", written)
         /\ Logged("warn", "test_metrics_csv", 0)
         /\ In("forecast_csv", written)

\* C8 amended: with generate_metrics, a metrics table that is None (never
\* computed) is not written, and the warning logged in its place comes after
\* the forecast CSV is written; the same for the test metrics with test
\* data.  A table that was computed is written in a completed run even when
\* it is empty.
C8_NoneMetricsNotWritten ==
  (Entered("PersistArtifacts") /\ cfg.generate_metrics) =>
    /\ eval_metrics.isNone =>
         /\ ~In("metrics_csv", attempted)
         /\ pc = "Done" => Logged("warn", "metrics_csv", 0)
    /\ (cfg.test_data /\ test_eval_metrics.isNone) =>
         /\ ~In("test_metrics_csv", attempted)
         /\ pc = "Done" => Logged("warn", "test_metrics_csv", 0)
    /\ (Logged("warn", "metrics_csv", 0) \/ Logged("warn", "test_metrics_csv", 0))
         => In("forecast_csv", written)
    /\ pc = "Done" =>
         /\ In("forecast_csv", written)
         /\ ~eval_metrics.isNone => In("metrics_csv", written)
         /\ (cfg.test_data /\ ~test_eval_metrics.isNone)
              => In("test_metrics_csv", written)

C8_NoneTestMetricsWarned ==
  /\ pc = "Done"
  /\ cfg.generate_metrics /\ cfg.test_data
  /\ test_eval_metrics.isNone
  /\ Logged("warn", "test_metrics_csv", 0)
  /\ In("forecast_csv", written)
  /\ In("metrics_csv", written)
  /\ ~In("test_metrics_csv", written)

\* C9: every series whose test-metrics computation failed because it is
\* missing from the test data is a key of errors_dict, and a completed run
\* has written the errors JSON exactly when errors_dict is not empty.
C9_FailuresRecorded ==
  /\ \A s \in Series :
       Logged("warn", "Unable to find series in the test data", s)
         => s \in DOMAIN errors_dict
  /\ pc = "Done" => (In("errors_json", written) <=> DOMAIN errors_dict # {})

\* The report has been assembled
Assembled == Entered("AssembleReport") /\ pc \in {"AssembleReport", "Done"}

NonEmptyTable(df) == ~df.isNone /\ Len(df.val) > 0

\* C10: in an assembled report the test-metrics, summary-metrics and
\* training-metrics sections are present exactly when their table is not
\* None and not empty, the forecast section exactly when some series has
\* forecast output, and without test data there is no test-metrics section.
C10_NoEmptySections ==
  Assembled =>
    /\ In("Test Data Evaluation Metrics", report_sections)
         <=> NonEmptyTable(test_eval_metrics)
    /\ In("Test Data Summary Metrics", report_sections)
         <=> (~summary_metrics.isNone /\ Len(summary_metrics.val.rows) > 0)
    /\ In("Training Data Metrics", report_sections)
         <=> NonEmptyTable(eval_metrics)
    /\ In("Forecasted Data Overlaying Historical", report_sections)
         <=> DOMAIN forecast_output # {}
    /\ ~cfg.test_data => ~In("Test Data Evaluation Metrics", report_sections)

C10_EmptyTablesOmitted ==
  /\ Assembled
  /\ ~test_eval_metrics.isNone /\ Len(test_eval_metrics.val) = 0
  /\ ~summary_metrics.isNone
  /\ ~In("Test Data Evaluation Metrics", report_sections)
  /\ ~In("Test Data Summary Metrics", report_sections)
  /\ In("Training Data Metrics", report_sections)
  /\ In("Forecasted Data Overlaying Historical", report_sections)

\* The sections a report can have, in their fixed order
SectionOrder ==
  <<"Forecast Report", "Back Testing Metrics",
    "Forecasted Data Overlaying Historical", "Model Sections",
    "Test Data Evaluation Metrics", "Test Data Summary Metrics",
    "Training Data Metrics", "Reference: YAML File">>

SectionRank(x) == CHOOSE i \in DOMAIN SectionOrder : SectionOrder[i] = x

\* C11: whatever sections an assembled report has, they come in the order
\* header, backtest comparison, forecast plots, model sections, test metrics,
\* summary metrics, training metrics, configuration echo; the header is the
\* first section and the configuration echo the last.
C11_SectionOrder ==
  Assembled =>
    /\ \A i \in DOMAIN report_sections : In(report_sections[i], SectionOrder)
    /\ \A i \in 1..(Len(report_sections) - 1) :
         SectionRank(report_sections[i]) < SectionRank(report_sections[i + 1])
    /\ report_sections[1] = "Forecast Report"
    /\ report_sections[Len(report_sections)] = "Reference: YAML File"

C11_AllSectionsPresent ==
  /\ Assembled
  /\ report_sections = SectionOrder

\* The subclass's _generate_report has returned, so that generate_report has
\* gone on to the sections and to backtest_stats.csv
SectionsStarted == Entered("AssembleReport") /\ raised # "ReportHookError"

\* C12: the report has the backtest section only if the model is auto-select
\* and backtest_stats.csv exists; with auto-select and no such file the
\* section is left out and the report is still assembled from the other
\* sections (no exception leaves the assembly).
C12_MissingBacktestOmitted ==
  SectionsStarted =>
    /\ In("Back Testing Metrics", report_sections)
         => (cfg.auto_select /\ ~backtest_file.isNone)
    /\ (cfg.auto_select /\ backtest_file.isNone) =>
         /\ raised # "FileNotFoundError"
         /\ In("Forecast Report", report_sections)
         /\ ~In("Back Testing Metrics", report_sections)

AllTargetsRow == [row |-> "All Targets", step |-> 0]

\* C13: when _test_evaluate_metrics has returned, the summary metrics are
\* empty exactly when the metrics table is empty: a table with no column
\* comes with an empty summary and is not an error, and a table with a
\* column comes with a summary that has the "All Targets" mean/median row.
C13_SummaryEmptyIffTableEmpty ==
  (TestLoaded /\ ~TestRaised) =>
    /\ ~test_eval_metrics.isNone /\ ~summary_metrics.isNone
    /\ Len(test_eval_metrics.val) = 0 <=> Len(summary_metrics.val.rows) = 0
    /\ Len(test_eval_metrics.val) = 0 => summary_metrics.val = EmptyFrame
    /\ Len(test_eval_metrics.val) > 0 => In(AllTargetsRow, summary_metrics.val.rows)

C13_BothEmptyReturned ==
  /\ TestLoaded /\ ~TestRaised
  /\ DOMAIN forecast_output # {}
  /\ DOMAIN test_file = DOMAIN forecast_output
  /\ ~test_eval_metrics.isNone /\ Len(test_eval_metrics.val) = 0
  /\ ~summary_metrics.isNone /\ summary_metrics.val = EmptyFrame

\* The rows of the per-horizon-step breakdown in the summary metrics
HorizonRows(summary) == {i \in DOMAIN summary.rows : summary.rows[i].row = "horizon"}

\* C14: when _test_evaluate_metrics returns a metrics table that is not
\* empty, the summary has the per-horizon-step rows, with the columns in the
\* canonical order, exactly when the horizon is at most
\* SUMMARY_METRICS_HORIZON_LIMIT; above the limit the summary is the
\* "All Targets" row with its own columns.
C14_BreakdownIffWithinLimit ==
  (TestLoaded /\ ~TestRaised /\ NonEmptyTable(test_eval_metrics)) =>
    LET summary == summary_metrics.val
    IN /\ HorizonRows(summary) # {} <=> cfg.horizon <= SUMMARY_METRICS_HORIZON_LIMIT
       /\ cfg.horizon <= SUMMARY_METRICS_HORIZON_LIMIT =>
            /\ Cardinality(HorizonRows(summary)) = cfg.horizon
            /\ summary.columns = new_column_order
       /\ cfg.horizon > SUMMARY_METRICS_HORIZON_LIMIT =>
            /\ summary.rows = <<AllTargetsRow>>
            /\ summary.columns = BaseSummaryColumns

C14_IncludedAtLimit ==
  /\ TestLoaded /\ ~TestRaised /\ NonEmptyTable(test_eval_metrics)
  /\ cfg.horizon = SUMMARY_METRICS_HORIZON_LIMIT
  /\ Cardinality(HorizonRows(summary_metrics.val)) = SUMMARY_METRICS_HORIZON_LIMIT
  /\ summary_metrics.val.columns = new_column_order

\* The model columns of a backtest table: all but the 'backtest' column
Candidates(table) == {i \in DOMAIN table : table[i].name # "backtest"}

\* Column i of the table has a lower mean than column j
LowerMean(table, i, j) ==
  SumSeq(table[i].values) * Len(table[j].values)
    < SumSeq(table[j].values) * Len(table[i].values)

\* C15: the model named as best in the backtest section is a model column of
\* the backtest table, never the 'backtest' column, and no model column has a
\* lower mean score; for modelA = [0.1, 0.3], modelB = [0.05, 0.05] it is
\* modelB.
C15_BestModelLowestMean ==
  ~best_model.isNone =>
    LET table == backtest_file.val
    IN /\ best_model.val # "backtest"
       /\ \E i \in Candidates(table) :
            /\ table[i].name = best_model.val
            /\ \A j \in Candidates(table) : ~LowerMean(table, j, i)
       /\ table = ExampleBacktest => best_model.val = "modelB"

C15_IndexColumnNotSelected ==
  /\ ~best_model.isNone
  /\ best_model.val = "modelB"
  /\ In("Back Testing Metrics", report_sections)
  /\ LET table == backtest_file.val
     IN \E b \in DOMAIN table :
          /\ table[b].name = "backtest"
          /\ \A j \in Candidates(table) : LowerMean(table, b, j)

\* explain_model has been called
Explained == cfg.generate_explanations /\ SectionsStarted

\* explain_model over the fitted series only
ExplainFittedOnly ==
  ExplainLoop(SortedSeq(models), 1, models, shap_values, ExplainInit)

\* The loop of explain_model got as far as series s
LoopReached(s) == \A t \in models : t < s => shap_values[t] # "raise"

\* C16: in explain_model a series without a fitted model is skipped with a
\* warning and raises nothing: it has no entry in the global or the local
\* explanation, explain_model fails only when the explainer of a fitted
\* series does, and the entries of the fitted series are those of a run over
\* the fitted series alone.
C16_UnfittedSeriesSkipped ==
  Explained =>
    /\ \A s \in Series \ models :
         /\ s \notin global_explanation
         /\ s \notin local_explanation
         /\ LoopReached(s) => Logged("warn", "Skipping explanations", s)
    /\ Logged("warn", "Failed to generate Explanations", 0)
         => \E t \in models : shap_values[t] = "raise"
    /\ global_explanation = ExplainFittedOnly.global_explanation
    /\ local_explanation = ExplainFittedOnly.local_explanation

C16_SkippedBesideExplained ==
  /\ Explained
  /\ models # {}
  /\ 1 \notin models
  /\ Logged("warn", "Skipping explanations", 1)
  /\ global_explanation = models
  /\ local_explanation = models
  /\ ~Logged("warn", "Failed to generate Explanations", 0)

\* load_pkl raised inside _load_model
LoadFailed == Logged("info", "model.pkl is not present", 0)

\* C17: LoadPreviousModel is entered only with a previous output directory
\* configured, and then before BuildModels; a failure to load is not raised:
\* loaded_models stays None, the run does not end in LoadPreviousModel, and
\* the stage that follows is BuildModels.
C17_LoadFailureSwallowed ==
  /\ Entered("LoadPreviousModel") => cfg.previous_output_dir
  /\ Entered("BuildModels") =>
       (Entered("LoadPreviousModel") <=> cfg.previous_output_dir)
  /\ \A i, j \in DOMAIN stages :
       (stages[i] = "LoadPreviousModel" /\ stages[j] = "BuildModels") => i < j
  /\ LoadFailed =>
       /\ loaded_models.isNone
       /\ ~(pc = "Aborted" /\ stages[Len(stages)] = "LoadPreviousModel")
       /\ pc = "LoadPreviousModel" => NextStage(pc, cfg) = "BuildModels"
  /\ (Entered("LoadPreviousModel") /\ ~LoadFailed) => ~loaded_models.isNone

C17_RunContinuesAfterFailedLoad ==
  /\ LoadFailed
  /\ loaded_models.isNone
  /\ Entered("LoadPreviousModel") /\ Entered("BuildModels")
  /\ pc = "Done"

\* The exceptions of _build_model and of the report assembly
BuildOrAssemblyErrors ==
  {"BuildModelsError", "ReportHookError", "FileNotFoundError"}

\* C18: an exception of _build_model or of the report assembly is not caught
\* in generate_report: the run ends with it, in the stage that raised,
\* PersistArtifacts is never entered and no artifact is written, the
\* forecast CSV and the errors JSON included.
C18_FailurePropagates ==
  /\ raised \in BuildOrAssemblyErrors =>
       /\ pc = "Aborted"
       /\ stages[Len(stages)] \in {"BuildModels", "AssembleReport"}
       /\ ~Entered("PersistArtifacts")
       /\ Len(attempted) = 0 /\ Len(written) = 0
  /\ (pc = "Aborted" /\ stages[Len(stages)] \in {"BuildModels", "AssembleReport"})
       => raised \in BuildOrAssemblyErrors

C18_NothingWrittenAfterFailure ==
  /\ raised = "ReportHookError"
  /\ pc = "Aborted"
  /\ DOMAIN forecast_output # {}
  /\ DOMAIN errors_dict # {}
  /\ ~eval_metrics.isNone
  /\ ~Entered("PersistArtifacts")
  /\ Len(written) = 0

=============================================================================
